---- MODULE Spec2Model ----
(***************************************************************************)
(* A model of cmd/puzzledistext.c (layer enumeration of the 24-puzzle by   *)
(* expansion, external radix sort and coalescing) and of the inline        *)
(* pattern database accessors of pdb.h.                                    *)
(*                                                                         *)
(* Four specifications share the variables below; each one drives one part *)
(* of the program and leaves the other parts' variables untouched:         *)
(*   SpecMain      main(): the layer loop and its reports                  *)
(*   SpecExp       expround(): one expansion round over bucket files       *)
(*   SpecCoalesce  coalesce() applied to an arbitrary record stream        *)
(*   SpecPdb       pdb_update / pdb_conditional_update by worker threads   *)
(***************************************************************************)
EXTENDS Integers, Sequences, FiniteSets, Bags, TLC

VARIABLES
    \* ---- main()
    mpc, i, limit, samplefile, new_cps, old_cps, stdout, sampled,
    \* ---- expround()
    epc, round, loc, mki, mkround, rdxfiles, oldrdxfiles, fsys, fpos,
    infile, inpos, outfile, cp, p, mi, exitcode, diag, iofail, nfail,
    leftover, expanded,
    \* ---- coalesce() on a stream of its own
    cin, cout1, cout2, cstep,
    \* ---- pattern database
    tables, wpc, wargs, wret, ncalls, cascalls, caswins, casdesired, dirty

mainVars == <<mpc, i, limit, samplefile, new_cps, old_cps, stdout, sampled>>
expVars  == <<epc, round, loc, mki, mkround, rdxfiles, oldrdxfiles, fsys, fpos,
              infile, inpos, outfile, cp, p, mi, exitcode, diag, iofail, nfail,
              leftover, expanded>>
coalVars == <<cin, cout1, cout2, cstep>>
pdbVars  == <<tables, wpc, wargs, wret, ncalls, cascalls, caswins, casdesired, dirty>>
vars     == <<mainVars, expVars, coalVars, pdbVars>>

(***************************************************************************)
(* Bounds of the model.                                                    *)
(***************************************************************************)
MaxLimit   == 6    \* largest -l value tried, and the deepest layer computed
MaxInLayer == 2    \* expround is fed the coalesced layers 0..MaxInLayer
MaxFaults  == 1    \* I/O failures injected into one expround
MaxLen     == 3    \* longest stream handed to coalesce on its own
NWorkers   == 2    \* pattern database worker threads
MaxCalls   == 3    \* calls the workers make in all

(***************************************************************************)
(* Program constants.                                                      *)
(***************************************************************************)
TILE_COUNT == 25
GRID_WIDTH == 5
MOVE_MASK  == 15
UNREACHED  == 255
INT_MAX    == 2147483647
EXIT_FAILURE == 1

Tiles == 0 .. TILE_COUNT - 1
Locs  == 0 .. TILE_COUNT - 1

(***************************************************************************)
(* Bit operations on small naturals.                                       *)
(***************************************************************************)
RECURSIVE BitOr(_, _)
BitOr(a, b) ==
    IF a = 0 THEN b
    ELSE IF b = 0 THEN a
    ELSE (IF a % 2 = 1 \/ b % 2 = 1 THEN 1 ELSE 0) + 2 * BitOr(a \div 2, b \div 2)

Shl1(k) == 2 ^ k                              \* 1 << k

BitSet(m, k) == (m \div Shl1(k)) % 2 = 1      \* m & 1 << k

(***************************************************************************)
(* struct puzzle: tiles[t] is the grid location of tile t, grid[l] is the  *)
(* tile at location l; tile 0 is the blank.                                *)
(***************************************************************************)
solved_puzzle ==
    [tiles |-> [t \in Tiles |-> t], grid |-> [l \in Locs |-> l]]

zero_location(pz) == pz.tiles[0]

\* The destinations the blank at z can move to, in ascending order.
get_moves(z) ==
    (IF z >= GRID_WIDTH THEN <<z - GRID_WIDTH>> ELSE <<>>)
    \o (IF z % GRID_WIDTH # 0 THEN <<z - 1>> ELSE <<>>)
    \o (IF z % GRID_WIDTH # GRID_WIDTH - 1 THEN <<z + 1>> ELSE <<>>)
    \o (IF z < TILE_COUNT - GRID_WIDTH THEN <<z + GRID_WIDTH>> ELSE <<>>)

move_count(z) == Len(get_moves(z))

\* Swap the blank with the tile at location dest.
move(pz, dest) ==
    LET zloc == pz.tiles[0]
        tile == pz.grid[dest]
    IN  [tiles |-> [pz.tiles EXCEPT ![0] = dest, ![tile] = zloc],
         grid  |-> [pz.grid EXCEPT ![dest] = 0, ![zloc] = tile]]

(***************************************************************************)
(* struct compact_puzzle.  The record keeps the locations of tiles 0..23   *)
(* (the last tile's location follows from the others): lo holds tiles      *)
(* 0..11, hi holds tiles 12..23.  The C field lo also carries the move     *)
(* mask in its low bits; here field lo is the part of lo above MOVE_MASK   *)
(* and field mask is lo & MOVE_MASK.                                       *)
(***************************************************************************)
HALF == 12

pack_puzzle(pz) ==
    [lo   |-> [k \in 1 .. HALF |-> pz.tiles[k - 1]],
     hi   |-> [k \in 1 .. HALF |-> pz.tiles[k + HALF - 1]],
     mask |-> 0]

RECURSIVE dest_mask(_, _, _)
dest_mask(moves, dest, k) ==
    IF k > Len(moves) THEN 0
    ELSE (IF moves[k] = dest THEN Shl1(k - 1) ELSE 0) + dest_mask(moves, dest, k + 1)

\* Pack pz, masking out the move that leads back to dest.
pack_puzzle_masked(pz, dest) ==
    [pack_puzzle(pz) EXCEPT
        !.mask = dest_mask(get_moves(zero_location(pz)), dest, 1)]

unpack_puzzle(c) ==
    LET known == [t \in 0 .. TILE_COUNT - 2 |->
                     IF t < HALF THEN c.lo[t + 1] ELSE c.hi[t - HALF + 1]]
        last  == CHOOSE l \in Locs : \A t \in 0 .. TILE_COUNT - 2 : known[t] # l
        tl    == [t \in Tiles |-> IF t = TILE_COUNT - 1 THEN last ELSE known[t]]
    IN  [tiles |-> tl,
         grid  |-> [l \in Locs |-> CHOOSE t \in Tiles : tl[t] = l]]

move_mask(c) == c.mask

\* a.hi == b.hi && ((a.lo ^ b.lo) & ~MOVE_MASK) == 0
same_config(a, b) == a.hi = b.hi /\ a.lo = b.lo

\* a.lo |= b.lo
lo_or(a, b) ==
    [a EXCEPT !.lo   = [k \in 1 .. HALF |-> BitOr(a.lo[k], b.lo[k])],
              !.mask = BitOr(a.mask, b.mask)]

NoRec == [lo |-> <<>>, hi |-> <<>>, mask |-> 0]

(***************************************************************************)
(* The move generator as the slice functions use it: the children of a     *)
(* record, one per move of the blank that the mask leaves free, each with  *)
(* the mask bit of the move back to the parent.                            *)
(***************************************************************************)
\* The mutant keeps every move: the movemask test is dropped.
masked_never(movemask, k) == FALSE

\* if (movemask & 1 << i) continue;
masked(movemask, k) == BitSet(movemask, k)

RECURSIVE expand_from(_, _, _, _)
expand_from(pz, zloc, movemask, k) ==
    IF k >= move_count(zloc) THEN <<>>
    ELSE IF masked(movemask, k) THEN expand_from(pz, zloc, movemask, k + 1)
    ELSE <<pack_puzzle_masked(move(pz, get_moves(zloc)[k + 1]), zloc)>>
             \o expand_from(pz, zloc, movemask, k + 1)

expand(c) ==
    LET pz == unpack_puzzle(c)
    IN  expand_from(pz, zero_location(pz), move_mask(c), 0)

(***************************************************************************)
(* expandpuzzle() of puzzledistext.c.  Its call                            *)
(*     putpuzzle(outfiles + p.tiles[TILE_COUNT - 1], &ncp)                 *)
(* passes the address of a slot of the array outfiles, a FILE **, where    *)
(* putpuzzle takes the FILE * held in the slot, and distribute() does the  *)
(* same with outfiles + p.tiles[t].  fwrite then works on the slot as if   *)
(* it were a stream, which is undefined: the process is killed by a        *)
(* signal, or the call does not return, or fwrite returns 0 and putpuzzle  *)
(* exits.  The call writes nothing to a bucket and never returns to its    *)
(* caller.                                                                 *)
(***************************************************************************)
\* What becomes of the process in putpuzzle(outfiles + k, &cp), and what it
\* has then written to stderr: killed by SIGSEGV; killed by SIGABRT after a
\* message of the C library; inside a call that does not return; or fwrite
\* returns 0, and putpuzzle prints with perror and exits.
putpuzzle_slot ==
    { [end |-> "sigsegv", diag |-> ""],
      [end |-> "sigabrt", diag |-> "invalid stdio handle"],
      [end |-> "sigabrt", diag |-> "The futex facility returned an unexpected error code."],
      [end |-> "hang",    diag |-> ""],
      [end |-> "exit",    diag |-> "putpuzzle"] }

\* The mutant packs the child with the move just made, moves[i], in place of
\* zloc: the mask does not name the move back.
expandmove_dest(pz, zloc, k) ==
    LET p1 == move(pz, get_moves(zloc)[k + 1])
    IN  [ncp    |-> pack_puzzle_masked(p1, get_moves(zloc)[k + 1]),
         bucket |-> p1.tiles[TILE_COUNT - 1],
         p      |-> p1]

\* move(&p, moves[i]); pack_puzzle_masked(&ncp, &p, zloc); and the arguments
\* of the call putpuzzle(outfiles + p.tiles[TILE_COUNT - 1], &ncp).  The call
\* does not return: p is the puzzle after the move.
expandmove(pz, zloc, k) ==
    LET p1 == move(pz, get_moves(zloc)[k + 1])
    IN  [ncp    |-> pack_puzzle_masked(p1, zloc),
         bucket |-> p1.tiles[TILE_COUNT - 1],
         p      |-> p1]

\* The putpuzzle calls of the loop from move k on: the one for the first move
\* the mask leaves free, in which the process ends, or none.
RECURSIVE expandloop(_, _, _, _)
expandloop(pz, zloc, movemask, k) ==
    IF k >= move_count(zloc) THEN <<>>
    ELSE IF masked(movemask, k) THEN expandloop(pz, zloc, movemask, k + 1)
    ELSE LET e == expandmove(pz, zloc, k)
         IN  <<[bucket |-> e.bucket, ncp |-> e.ncp]>>

expandpuzzle(c) ==
    LET pz == unpack_puzzle(c)
    IN  expandloop(pz, zero_location(pz), move_mask(c), 0)

(***************************************************************************)
(* coalesce(): the records appended to out when the records of in are read *)
(* to the end.                                                             *)
(***************************************************************************)
\* One pass of the loop body: st.a is the record held, n the record read.
coalesce_step(st, n) ==
    IF same_config(st.a, n)
    THEN [out |-> st.out, a |-> lo_or(st.a, n)]
    ELSE [out |-> Append(st.out, st.a), a |-> n]          \* putpuzzle(outfile, &a)

\* The passes of the loop for the records in[lo], ..., in[hi], in this order:
\* those up to the middle, then the rest from the state first they leave.
RECURSIVE coalesce_loop(_, _, _, _)
coalesce_loop(st, in, lo, hi) ==
    IF lo > hi THEN st
    ELSE IF lo = hi THEN coalesce_step(st, in[lo])
    ELSE LET mid == (lo + hi) \div 2
         IN  CHOOSE r \in {coalesce_loop(first, in, mid + 1, hi) :
                              first \in {coalesce_loop(st, in, lo, mid)}} : TRUE

\* The mutant forgets the putpuzzle after the loop: the last record is lost.
coalesce_droplast(out, in) ==
    IF in = <<>> THEN out
    ELSE coalesce_loop([out |-> out, a |-> in[1]], in, 2, Len(in)).out

\* The mutant overwrites the mask instead of or-ing it.
coalesce_assign_step(st, n) ==
    IF same_config(st.a, n)
    THEN [out |-> st.out, a |-> n]
    ELSE [out |-> Append(st.out, st.a), a |-> n]

RECURSIVE coalesce_assign_loop(_, _, _, _)
coalesce_assign_loop(st, in, lo, hi) ==
    IF lo > hi THEN st
    ELSE IF lo = hi THEN coalesce_assign_step(st, in[lo])
    ELSE LET mid == (lo + hi) \div 2
         IN  CHOOSE r \in {coalesce_assign_loop(first, in, mid + 1, hi) :
                              first \in {coalesce_assign_loop(st, in, lo, mid)}} : TRUE

coalesce_assign(out, in) ==
    IF in = <<>> THEN out
    ELSE LET st == coalesce_assign_loop([out |-> out, a |-> in[1]], in, 2, Len(in))
         IN  Append(st.out, st.a)

coalesce(out, in) ==
    IF in = <<>> THEN out
    ELSE LET st == coalesce_loop([out |-> out, a |-> in[1]], in, 2, Len(in))
         IN  Append(st.out, st.a)                           \* putpuzzle(outfile, &a)

(***************************************************************************)
(* pdb.h: the table accessors.  The table of one map rank is an array of   *)
(* bytes; an index addresses one byte of it.                               *)
(***************************************************************************)
\* The tile set of the pattern database holds the zero tile.
pdb_has_zero == TRUE

\* aux.idxt[maprank].n_eqclass, and the number of permutation indices.
n_eqclass(maprank) == 2
n_perm(maprank)    == 2

MapRanks == {0}

Indices ==
    {[maprank |-> m, pidx |-> q, eqidx |-> e] :
        m \in MapRanks, q \in 0 .. 1, e \in 0 .. 1}

\* The mutant leaves the equivalence class out of the address.
pdb_entry_pointer_noeq(idx) ==
    [maprank |-> idx.maprank, off |-> idx.pidx]

pdb_entry_pointer(idx) ==
    IF pdb_has_zero
    THEN [maprank |-> idx.maprank,
          off     |-> idx.pidx * n_eqclass(idx.maprank) + idx.eqidx]
    ELSE [maprank |-> idx.maprank, off |-> idx.pidx]

Entries == {pdb_entry_pointer(idx) : idx \in Indices}

uchar(x) == x % 256

pdb_lookup(tb, idx) ==
    LET e == pdb_entry_pointer(idx) IN tb[e.maprank][e.off]

\* *pdb_entry_pointer(pdb, idx) = dist
pdb_update(tb, idx, dist) ==
    LET e == pdb_entry_pointer(idx)
    IN  [tb EXCEPT ![e.maprank][e.off] = uchar(dist)]

\* The mutant stores desired without comparing.
cas_always(byte, expected, desired) ==
    [ret |-> 1, byte |-> uchar(desired)]

\* atomic_compare_exchange_strong(ptr, &exp, desired), exp = (unsigned char)expected
atomic_compare_exchange_strong(byte, expected, desired) ==
    IF byte = uchar(expected)
    THEN [ret |-> 1, byte |-> uchar(desired)]
    ELSE [ret |-> 0, byte |-> byte]

\* The result and the table after pdb_conditional_update(pdb, idx, expected, desired).
pdb_conditional_update(tb, idx, expected, desired) ==
    LET e == pdb_entry_pointer(idx)
        r == atomic_compare_exchange_strong(tb[e.maprank][e.off], expected, desired)
    IN  [ret |-> r.ret, tables |-> [tb EXCEPT ![e.maprank][e.off] = r.byte]]

\* pdb_clear(): every byte is UNREACHED.
pdb_clear ==
    [m \in MapRanks |->
        [o \in 0 .. n_perm(m) * n_eqclass(m) - 1 |-> UNREACHED]]

(***************************************************************************)
(* The parts at rest: the values a part's variables hold in the            *)
(* specifications that do not drive it.                                    *)
(***************************************************************************)
NoPuzzle == [tiles |-> <<>>, grid |-> <<>>]

MainIdle ==
    /\ mpc = "idle" /\ i = 0 /\ limit = 0 /\ samplefile = FALSE
    /\ new_cps = <<>> /\ old_cps = <<>> /\ stdout = <<>> /\ sampled = <<>>

ExpIdle ==
    /\ epc = "idle" /\ round = 0 /\ loc = 0 /\ mki = 0 /\ mkround = 0
    /\ rdxfiles = <<>> /\ oldrdxfiles = <<>> /\ fsys = <<>> /\ fpos = <<>>
    /\ infile = <<>> /\ inpos = 0 /\ outfile = <<>> /\ cp = NoRec /\ p = NoPuzzle
    /\ mi = 0 /\ exitcode = 0 /\ diag = "" /\ iofail = "none" /\ nfail = 0
    /\ leftover = 0 /\ expanded = <<>>

CoalIdle ==
    /\ cin = <<>> /\ cout1 = <<>> /\ cout2 = <<>> /\ cstep = 0

PdbIdle ==
    /\ tables = <<>> /\ wpc = <<>> /\ wargs = <<>> /\ wret = <<>> /\ ncalls = 0
    /\ cascalls = <<>> /\ caswins = <<>> /\ casdesired = <<>> /\ dirty = <<>>

(***************************************************************************)
(* SpecCoalesce: coalesce() applied to a stream, and again to its output.  *)
(***************************************************************************)
\* The puzzle with the locations of tiles s and t exchanged.
swap_tiles(pz, s, t) ==
    [tiles |-> [pz.tiles EXCEPT ![s] = pz.tiles[t], ![t] = pz.tiles[s]],
     grid  |-> [pz.grid EXCEPT ![pz.tiles[s]] = t, ![pz.tiles[t]] = s]]

\* Three configurations: A and B differ in lo only, C differs from both in hi.
CoalConfigs ==
    {solved_puzzle,
     swap_tiles(swap_tiles(solved_puzzle, 1, 2), 3, 4),
     swap_tiles(swap_tiles(solved_puzzle, 1, 2), 12, 13)}

CoalRecords ==
    {[pack_puzzle(c) EXCEPT !.mask = m] : c \in CoalConfigs, m \in {0, 1, 2, 4}}

CoalStreams ==
    UNION {[1 .. n -> CoalRecords] : n \in 0 .. MaxLen}

CoalInit ==
    /\ cin \in CoalStreams /\ cout1 = <<>> /\ cout2 = <<>> /\ cstep = 0
    /\ MainIdle /\ ExpIdle /\ PdbIdle

CoalesceFirst ==
    /\ cstep = 0
    /\ cout1' = coalesce(<<>>, cin)
    /\ cstep' = 1
    /\ UNCHANGED <<cin, cout2, mainVars, expVars, pdbVars>>

CoalesceAgain ==
    /\ cstep = 1
    /\ cout2' = coalesce(<<>>, cout1)
    /\ cstep' = 2
    /\ UNCHANGED <<cin, cout1, mainVars, expVars, pdbVars>>

CoalNext == CoalesceFirst \/ CoalesceAgain

SpecCoalesce == CoalInit /\ [][CoalNext]_vars

(***************************************************************************)
(* C6: for every maximal run of adjacent input records of one              *)
(* configuration coalesce emits exactly one record, with the run's state   *)
(* bits and the bitwise OR of the run's masks.                             *)
(***************************************************************************)
\* The positions of cin at which a run starts.
RunStarts(s) == {k \in 1 .. Len(s) : k = 1 \/ ~same_config(s[k - 1], s[k])}

\* The last position of the run that starts at k.
RunEnd(s, k) ==
    CHOOSE j \in k .. Len(s) :
        /\ \A m \in k + 1 .. j : m \notin RunStarts(s)
        /\ j = Len(s) \/ j + 1 \in RunStarts(s)

CoalesceRunsOr ==
    cstep >= 1 =>
        /\ Len(cout1) = Cardinality(RunStarts(cin))
        /\ \A k \in RunStarts(cin) :
              LET o == cout1[Cardinality({m \in RunStarts(cin) : m <= k})]
              IN  /\ o.hi = cin[k].hi /\ o.lo = cin[k].lo
                  /\ \A b \in 0 .. 3 :
                        BitSet(o.mask, b) <=>
                            \E j \in k .. RunEnd(cin, k) : BitSet(cin[j].mask, b)

\* A, B with mask 1, B with mask 2 went in; A, B with mask 3 came out.
CoalesceMergedExample ==
    /\ cstep >= 1 /\ Len(cin) = 3 /\ Len(cout1) = 2
    /\ ~same_config(cin[1], cin[2]) /\ same_config(cin[2], cin[3])
    /\ cin[2].mask = 1 /\ cin[3].mask = 2
    /\ cout1[1] = cin[1]
    /\ cout1[2] = [cin[2] EXCEPT !.mask = 3]

(***************************************************************************)
(* C7: coalescing the output of coalesce changes nothing, record for       *)
(* record; the empty stream yields the empty stream.                       *)
(***************************************************************************)
CoalesceIdempotent ==
    /\ cstep >= 1 /\ cin = <<>> => cout1 = <<>>
    /\ cstep = 2 => cout2 = cout1

\* A stream in which records were merged has been coalesced twice.
CoalescedTwice ==
    /\ cstep = 2 /\ Len(cin) = 3 /\ Len(cout1) = 2 /\ cout2 = cout1

(***************************************************************************)
(* SpecPdb: worker threads calling pdb_conditional_update and pdb_update   *)
(* on a table that pdb_clear has filled.  A call is two steps: the worker  *)
(* enters the function with its arguments, then performs the one access    *)
(* to the byte; the accesses of different workers interleave.              *)
(*                                                                         *)
(* History kept per byte since the last pdb_clear:                         *)
(*   cascalls    completed conditional updates with expected = UNREACHED   *)
(*   caswins     those of them that returned 1                             *)
(*   casdesired  the desired value of the last one that returned 1         *)
(*   dirty       the byte was written by pdb_update or by a conditional    *)
(*               update with another expected value                        *)
(***************************************************************************)
Workers == 1 .. NWorkers

\* The distances and expected values the workers pass.
PdbDists    == {3, 7}
PdbExpected == {UNREACHED, 7}

NoArgs == [kind |-> "none", idx |-> <<>>, expected |-> 0, desired |-> 0]

PdbInit ==
    /\ tables = pdb_clear
    /\ wpc = [w \in Workers |-> "idle"]
    /\ wargs = [w \in Workers |-> NoArgs]
    /\ wret = [w \in Workers |-> -1]
    /\ ncalls = 0
    /\ cascalls = [e \in Entries |-> 0]
    /\ caswins = [e \in Entries |-> 0]
    /\ casdesired = [e \in Entries |-> UNREACHED]
    /\ dirty = [e \in Entries |-> FALSE]
    /\ MainIdle /\ ExpIdle /\ CoalIdle

\* A worker enters pdb_conditional_update(pdb, idx, expected, desired).
CallConditionalUpdate(w) ==
    /\ wpc[w] = "idle" /\ ncalls < MaxCalls
    /\ \E idx \in Indices, ex \in PdbExpected, d \in PdbDists :
          wargs' = [wargs EXCEPT ![w] =
                       [kind |-> "cas", idx |-> idx, expected |-> ex, desired |-> d]]
    /\ wpc' = [wpc EXCEPT ![w] = "call"]
    /\ ncalls' = ncalls + 1
    /\ UNCHANGED <<tables, wret, cascalls, caswins, casdesired, dirty,
                   mainVars, expVars, coalVars>>

\* A worker enters pdb_update(pdb, idx, dist).
CallUpdate(w) ==
    /\ wpc[w] = "idle" /\ ncalls < MaxCalls
    /\ \E idx \in Indices, d \in PdbDists :
          wargs' = [wargs EXCEPT ![w] =
                       [kind |-> "upd", idx |-> idx, expected |-> 0, desired |-> d]]
    /\ wpc' = [wpc EXCEPT ![w] = "call"]
    /\ ncalls' = ncalls + 1
    /\ UNCHANGED <<tables, wret, cascalls, caswins, casdesired, dirty,
                   mainVars, expVars, coalVars>>

\* The atomic compare-and-exchange of a pending conditional update, and its return.
DoConditionalUpdate(w) ==
    /\ wpc[w] = "call" /\ wargs[w].kind = "cas"
    /\ LET a == wargs[w]
           e == pdb_entry_pointer(a.idx)
           r == pdb_conditional_update(tables, a.idx, a.expected, a.desired)
       IN  /\ tables' = r.tables
           /\ wret' = [wret EXCEPT ![w] = r.ret]
           /\ IF a.expected = UNREACHED
              THEN /\ cascalls' = [cascalls EXCEPT ![e] = @ + 1]
                   /\ caswins' = [caswins EXCEPT ![e] = @ + r.ret]
                   /\ casdesired' = IF r.ret = 1
                                    THEN [casdesired EXCEPT ![e] = a.desired]
                                    ELSE casdesired
                   /\ dirty' = dirty
              ELSE /\ dirty' = [dirty EXCEPT ![e] = @ \/ r.ret = 1]
                   /\ UNCHANGED <<cascalls, caswins, casdesired>>
    /\ wpc' = [wpc EXCEPT ![w] = "idle"]
    /\ wargs' = [wargs EXCEPT ![w] = NoArgs]
    /\ UNCHANGED <<ncalls, mainVars, expVars, coalVars>>

\* The store of a pending pdb_update.
DoUpdate(w) ==
    /\ wpc[w] = "call" /\ wargs[w].kind = "upd"
    /\ tables' = pdb_update(tables, wargs[w].idx, wargs[w].desired)
    /\ dirty' = [dirty EXCEPT ![pdb_entry_pointer(wargs[w].idx)] = TRUE]
    /\ wpc' = [wpc EXCEPT ![w] = "idle"]
    /\ wargs' = [wargs EXCEPT ![w] = NoArgs]
    /\ UNCHANGED <<wret, ncalls, cascalls, caswins, casdesired,
                   mainVars, expVars, coalVars>>

\* pdb_clear() between two phases of the workers: no worker is inside a call.
PdbClear ==
    /\ \A w \in Workers : wpc[w] = "idle"
    /\ tables # pdb_clear
    /\ tables' = pdb_clear
    /\ cascalls' = [e \in Entries |-> 0]
    /\ caswins' = [e \in Entries |-> 0]
    /\ casdesired' = [e \in Entries |-> UNREACHED]
    /\ dirty' = [e \in Entries |-> FALSE]
    /\ UNCHANGED <<wpc, wargs, wret, ncalls, mainVars, expVars, coalVars>>

PdbNext ==
    \/ \E w \in Workers : CallConditionalUpdate(w)
    \/ \E w \in Workers : CallUpdate(w)
    \/ \E w \in Workers : DoConditionalUpdate(w)
    \/ \E w \in Workers : DoUpdate(w)
    \/ PdbClear

SpecPdb == PdbInit /\ [][PdbNext]_vars

(***************************************************************************)
(* C9: while a byte that pdb_clear set to UNREACHED is written by nothing  *)
(* but pdb_conditional_update(idx, UNREACHED, d) calls, at most one of the *)
(* calls returns 1; as soon as one call has completed exactly one has      *)
(* returned 1, every other one has returned 0, and the byte holds the      *)
(* desired value of the call that returned 1.                              *)
(***************************************************************************)
ConditionalUpdateOnce ==
    \A e \in Entries :
        ~dirty[e] =>
            /\ caswins[e] <= 1
            /\ cascalls[e] >= 1 =>
                  /\ caswins[e] = 1
                  /\ tables[e.maprank][e.off] = casdesired[e]
                  /\ casdesired[e] # UNREACHED
            /\ cascalls[e] = 0 => tables[e.maprank][e.off] = UNREACHED

\* Two workers have raced for byte 0 with desired 3 and 7: worker 2 won with 7.
ConditionalUpdateRaced ==
    LET e == pdb_entry_pointer([maprank |-> 0, pidx |-> 0, eqidx |-> 0])
    IN  /\ ~dirty[e] /\ cascalls[e] = 2 /\ caswins[e] = 1
        /\ wret = [w \in Workers |-> IF w = 2 THEN 1 ELSE 0]
        /\ tables[e.maprank][e.off] = 7

(***************************************************************************)
(* SpecMain: main() from the first layer on.  The in-memory slice          *)
(* functions it calls are not part of the two source files.                *)
(***************************************************************************)
\* The key the sorter orders by: (tiles[0], ..., tiles[23]), which is what
\* the record stores.
TileKey(c) == c.lo \o c.hi

LexLess(a, b) ==
    \E k \in 1 .. Len(a) : a[k] < b[k] /\ \A j \in 1 .. k - 1 : a[j] = b[j]

TileLess(a, b) == LexLess(TileKey(a), TileKey(b))

\* The records of s in ascending key order.
SortByTiles(s) == SortSeq(s, TileLess)

\* The children of the records s[lo], ..., s[hi], in the order they are made.
RECURSIVE ExpandAll(_, _, _)
ExpandAll(s, lo, hi) ==
    IF lo > hi THEN <<>>
    ELSE IF lo = hi
         THEN expand(s[lo])
    ELSE LET mid == (lo + hi) \div 2
         IN  ExpandAll(s, lo, mid) \o ExpandAll(s, mid + 1, hi)

\* cps_round(&new_cps, &old_cps): expand, sort and coalesce one layer.
cps_round(new, old) ==
    coalesce(new, SortByTiles(ExpandAll(old, 1, Len(old))))

\* The values of -l that the runs are given.
MainLimits == 0 .. MaxLimit

LayerLine(n, len) == [kind |-> "layer", layer |-> n, size |-> len]
HeaderLine == [kind |-> "confcount", layer |-> 0, size |-> 0]

MainInit ==
    /\ mpc = "init" /\ i = 0
    /\ limit \in MainLimits
    /\ samplefile \in BOOLEAN
    /\ new_cps = <<>> /\ old_cps = <<>> /\ stdout = <<>> /\ sampled = <<>>
    /\ ExpIdle /\ CoalIdle /\ PdbIdle

\* cps_init(&new_cps); pack_puzzle(&cp, &solved_puzzle); cps_append(&new_cps, &cp);
MainSolved ==
    /\ mpc = "init"
    /\ new_cps' = <<pack_puzzle(solved_puzzle)>>
    /\ mpc' = "sample0"
    /\ UNCHANGED <<i, limit, samplefile, old_cps, stdout, sampled,
                   expVars, coalVars, pdbVars>>

\* if (samplefile != NULL) do_sampling(samplefile, &new_cps, 0, n_samples);
MainSample0 ==
    /\ mpc = "sample0"
    /\ sampled' = IF samplefile THEN Append(sampled, 0) ELSE sampled
    /\ mpc' = "print0"
    /\ UNCHANGED <<i, limit, samplefile, new_cps, old_cps, stdout,
                   expVars, coalVars, pdbVars>>

\* The two printf calls before the loop, and the loop's i = 1.
MainPrint0 ==
    /\ mpc = "print0"
    /\ stdout' = stdout \o <<HeaderLine, LayerLine(0, Len(new_cps))>>
    /\ i' = 1
    /\ mpc' = "test"
    /\ UNCHANGED <<limit, samplefile, new_cps, old_cps, sampled,
                   expVars, coalVars, pdbVars>>

\* i <= limit
MainTest ==
    /\ mpc = "test"
    /\ mpc' = IF i <= limit THEN "begin" ELSE "return"
    /\ UNCHANGED <<i, limit, samplefile, new_cps, old_cps, stdout, sampled,
                   expVars, coalVars, pdbVars>>

\* fflush(stdout); old_cps = new_cps; cps_init(&new_cps);
MainBegin ==
    /\ mpc = "begin"
    /\ old_cps' = new_cps
    /\ new_cps' = <<>>
    /\ mpc' = "round"
    /\ UNCHANGED <<i, limit, samplefile, stdout, sampled,
                   expVars, coalVars, pdbVars>>

\* cps_round(&new_cps, &old_cps);
MainRound ==
    /\ mpc = "round"
    /\ new_cps' = cps_round(new_cps, old_cps)
    /\ mpc' = "sample"
    /\ UNCHANGED <<i, limit, samplefile, old_cps, stdout, sampled,
                   expVars, coalVars, pdbVars>>

\* if (samplefile != NULL) do_sampling(samplefile, &new_cps, i, n_samples);
MainSample ==
    /\ mpc = "sample"
    /\ sampled' = IF samplefile THEN Append(sampled, i) ELSE sampled
    /\ mpc' = "free"
    /\ UNCHANGED <<i, limit, samplefile, new_cps, old_cps, stdout,
                   expVars, coalVars, pdbVars>>

\* cps_free(&old_cps);
MainFree ==
    /\ mpc = "free"
    /\ old_cps' = <<>>
    /\ mpc' = "print"
    /\ UNCHANGED <<i, limit, samplefile, new_cps, stdout, sampled,
                   expVars, coalVars, pdbVars>>

\* The mutant reports the length of the slice of the layer before.
MainPrint_stale ==
    /\ mpc = "print"
    /\ stdout' = Append(stdout, LayerLine(i, Len(old_cps)))
    /\ i' = i + 1
    /\ mpc' = "test"
    /\ UNCHANGED <<limit, samplefile, new_cps, old_cps, sampled,
                   expVars, coalVars, pdbVars>>

\* The printf of layer i, and the loop's i++.
MainPrint ==
    /\ mpc = "print"
    /\ stdout' = Append(stdout, LayerLine(i, Len(new_cps)))
    /\ i' = i + 1
    /\ mpc' = "test"
    /\ UNCHANGED <<limit, samplefile, new_cps, old_cps, sampled,
                   expVars, coalVars, pdbVars>>

MainNext ==
    \/ MainSolved \/ MainSample0 \/ MainPrint0 \/ MainTest \/ MainBegin
    \/ MainRound \/ MainSample \/ MainFree \/ MainPrint

SpecMain == MainInit /\ [][MainNext]_vars

(***************************************************************************)
(* The reference enumeration: breadth-first search with a closed set.      *)
(***************************************************************************)
Neighbours(S) ==
    {move(pz, d) : <<pz, d>> \in
        UNION {{<<q, get_moves(zero_location(q))[k]>> :
                   k \in 1 .. move_count(zero_location(q))} : q \in S}}

RECURSIVE BFSUpTo(_)
BFSUpTo(d) ==
    IF d = 0 THEN <<{solved_puzzle}>>
    ELSE LET prev == BFSUpTo(d - 1)
             seen == UNION {prev[k] : k \in 1 .. d}
         IN  Append(prev, Neighbours(prev[d]) \ seen)

\* BFSLayers[d + 1] is the set of configurations at distance d.
BFSLayers == BFSUpTo(MaxLimit)

StreamConfigs(s) == {unpack_puzzle(s[k]) : k \in 1 .. Len(s)}

(***************************************************************************)
(* C1: the stream reported for layer d holds exactly the configurations at *)
(* breadth-first distance d from the solved puzzle, each in one record.    *)
(***************************************************************************)
LayerIsBFSLayer ==
    /\ mpc = "print0" =>
          /\ StreamConfigs(new_cps) = BFSLayers[1]
          /\ Len(new_cps) = 1
    /\ mpc = "print" =>
          /\ StreamConfigs(new_cps) = BFSLayers[i + 1]
          /\ Len(new_cps) = Cardinality(BFSLayers[i + 1])

\* Layer 6 is about to be reported; one of its records has two mask bits
\* set: two parents of layer 5 were coalesced into it.
LayerSixCoalesced ==
    /\ mpc = "print" /\ i = 6
    /\ \E k \in 1 .. Len(new_cps) : new_cps[k].mask \in {3, 5, 6, 9, 10, 12}

(* C2 as stated: the sizes reported for layers 0..5 are 1, 2, 4, 10, 24,   *)
(* 54 (the sizes of the 4 x 4 puzzle's layers).                            *)
(***************************************************************************)
Reports == SelectSeq(stdout, LAMBDA l : l.kind = "layer")

SizesAsStated == <<1, 2, 4, 10, 24, 54>>

ReportedSizesAsStated ==
    \A k \in 1 .. Len(Reports) :
        k <= Len(SizesAsStated) => Reports[k].size = SizesAsStated[k]

(***************************************************************************)
(* C2, amended: the sizes reported for layers 0..5 of the 5 x 5 puzzle are *)
(* 1, 2, 4, 10, 26, 64, and with limit = 1 the program reports layer 0     *)
(* with size 1, layer 1 with size 2 and nothing more.                      *)
(***************************************************************************)
LayerSizes == <<1, 2, 4, 10, 26, 64>>

ReportedSizes ==
    /\ \A k \in 1 .. Len(Reports) :
          /\ Reports[k].layer = k - 1
          /\ k <= Len(LayerSizes) => Reports[k].size = LayerSizes[k]
    /\ mpc = "return" /\ limit = 1 =>
          Reports = <<LayerLine(0, 1), LayerLine(1, 2)>>

\* The run with limit = 5 has returned with six reports, the last one 64.
ReportedFiveLayers ==
    /\ mpc = "return" /\ limit = 5 /\ Len(Reports) = 6
    /\ Reports[6] = LayerLine(5, 64)

(***************************************************************************)
(* main() as a running process: a statement of main that can be executed   *)
(* eventually is, and every call of cps_round returns.                     *)
(***************************************************************************)
MainStatements ==
    \/ MainSolved \/ MainSample0 \/ MainPrint0 \/ MainTest \/ MainBegin
    \/ MainSample \/ MainFree \/ MainPrint

SpecMainFair ==
    SpecMain /\ WF_vars(MainStatements) /\ []<>(mpc # "round")

(***************************************************************************)
(* C11 is about every limit, the default INT_MAX included.  The runs here  *)
(* are those with a limit in MainLimits: each returns after reporting the  *)
(* layers 0..limit, one line each.  A run with the default limit computes  *)
(* layer after layer for as long as i <= INT_MAX holds, and the loop has   *)
(* no test for an empty layer; such a run is not among the behaviours of   *)
(* SpecMain.                                                               *)
(***************************************************************************)
ReturnsAfterLimitLayers ==
    /\ [](mpc = "return" => (i = limit + 1 /\ Len(Reports) = limit + 1))
    /\ (limit < INT_MAX ~> mpc = "return")

(***************************************************************************)
(* SpecExp: expround(outfile, infile, dir), one stdio call per step.       *)
(*                                                                         *)
(* A bucket file is named by the digits "%02d" prints for its round and    *)
(* its location.  fsys maps the path of every bucket file on disk that the *)
(* round has not yet tried to remove to its content; leftover counts the   *)
(* files a failed remove() left behind.  fpos maps every open bucket       *)
(* stream (named by its path) to its position, counted in records.  The    *)
(* streams are opened "w+b" and never repositioned.  No record reaches a   *)
(* bucket: the two calls that should write one end the process (see        *)
(* putpuzzle_slot), so a bucket stream is read at the end of an empty file.*)
(*                                                                         *)
(* Up to MaxFaults stdio calls of a run fail.  iofail is the call that     *)
(* failed last, nfail the number of failed calls; expanded is the history  *)
(* of the children that expandpuzzle has handed to putpuzzle.  epc is      *)
(* "done" when expround has returned, "exit" after exit(EXIT_FAILURE),     *)
(* "sigsegv" or "sigabrt" when a signal has killed the process and "hang"  *)
(* when it is inside a call that does not return; exitcode is the status   *)
(* given to exit(), and 0 as long as exit() has not been called.           *)
(*                                                                         *)
(* expround's "oldrdxfiles = rdxfiles" is read as the copy of the array,   *)
(* and the block after expandpuzzle's loop (lines 119-123), which uses     *)
(* names declared nowhere, is left out.                                    *)
(***************************************************************************)
NULL == <<>>

\* snprintf(pathbuf, PATH_MAX, "%s-%02d-%02zu.rdx", dir, round, loc)
rdxpath(r, l) == <<r \div 10, r % 10, l \div 10, l % 10>>

FsCreate(fs, path) ==
    [x \in (DOMAIN fs) \cup {path} |-> IF x = path THEN <<>> ELSE fs[x]]

FsRemove(fs, path) == [x \in (DOMAIN fs) \ {path} |-> fs[x]]

StOpen(st, path) ==
    [x \in (DOMAIN st) \cup {path} |-> IF x = path THEN 0 ELSE st[x]]

\* The mutant forgets the fclose: the stream stays open.
StClose_leak(st, path) == st

StClose(st, path) == [x \in (DOMAIN st) \ {path} |-> st[x]]

\* Whether one more stdio call may fail.
MayFail == nfail < MaxFaults

Outcomes == IF MayFail THEN {TRUE, FALSE} ELSE {TRUE}

\* fread(cp, sizeof *cp, 1, cpfile) on a stream with this content and position.
fread(content, pos) ==
    (IF pos < Len(content)
     THEN {[kind |-> "rec", cp |-> content[pos + 1]]}
     ELSE {[kind |-> "eof", cp |-> NoRec]})
    \cup (IF MayFail THEN {[kind |-> "err", cp |-> NoRec]} ELSE {})

\* The mutant does not look at ferror(): a failed read counts as the end of the file.
getpuzzle_noferror(kind) ==
    IF kind = "rec" THEN "ok" ELSE "EOF"

\* getpuzzle(): 0 for a record, EOF at the end of the file, exit on an error.
getpuzzle(kind) ==
    IF kind = "rec" THEN "ok"
    ELSE IF kind = "err" THEN "exit"
    ELSE "EOF"

\* The layer streams expround is fed: none, and the coalesced layers 0..MaxInLayer.
RECURSIVE LayerStream(_)
LayerStream(d) ==
    IF d = 0 THEN <<pack_puzzle(solved_puzzle)>>
    ELSE cps_round(<<>>, LayerStream(d - 1))

ExpInputs == {<<>>} \cup {LayerStream(d) : d \in 0 .. MaxInLayer}

\* "int round = TILE_COUNT - 2, loc;": loc has no value until line 223 or 230
\* gives it one, and it is not read before; these two stand for every int.
loc_indeterminate == {0, TILE_COUNT}

ExpInit ==
    /\ epc = "mk" /\ round = TILE_COUNT - 2 /\ loc \in loc_indeterminate
    /\ mki = 0 /\ mkround = TILE_COUNT - 2
    /\ rdxfiles = [l \in Locs |-> NULL] /\ oldrdxfiles = [l \in Locs |-> NULL]
    /\ fsys = <<>> /\ fpos = <<>>
    /\ infile \in ExpInputs /\ inpos = 0 /\ outfile = <<>>
    /\ cp = NoRec /\ p = NoPuzzle /\ mi = 0
    /\ exitcode = 0 /\ diag = "" /\ iofail = "none" /\ nfail = 0
    /\ leftover = 0 /\ expanded = <<>>
    /\ MainIdle /\ CoalIdle /\ PdbIdle

\* perror(what); exit(EXIT_FAILURE); after the stdio call named kind has failed.
Die(kind, what) ==
    /\ iofail' = kind
    /\ nfail' = nfail + 1
    /\ diag' = what
    /\ exitcode' = EXIT_FAILURE
    /\ epc' = "exit"

\* The end of the process in putpuzzle(outfiles + k, &cp): fwrite on the array
\* slot kills it, or does not return, or returns 0, and then putpuzzle prints
\* with perror, errno being unset, and exits.
BadStream(o) ==
    /\ epc' = o.end
    /\ exitcode' = IF o.end = "exit" THEN EXIT_FAILURE ELSE exitcode
    /\ diag' = IF o.diag = "" THEN diag ELSE o.diag
    /\ iofail' = IF o.end = "exit" THEN "write" ELSE iofail
    /\ nfail' = nfail

\* One iteration of makerdxfiles(rdxfiles, dir, mkround): files[i] gets what
\* fopen returns, NULL when it fails.  After the last file of a pass of the
\* round loop comes that loop's loc = 0 (line 223).
MakeRdxFile ==
    /\ epc = "mk" /\ mki < TILE_COUNT
    /\ \E ok \in Outcomes :
          LET path == rdxpath(mkround, mki)
          IN  IF ok
              THEN /\ fsys' = FsCreate(fsys, path)
                   /\ fpos' = StOpen(fpos, path)
                   /\ rdxfiles' = [rdxfiles EXCEPT ![mki] = path]
                   /\ mki' = mki + 1
                   /\ epc' = IF mki + 1 < TILE_COUNT THEN "mk"
                             ELSE IF mkround = TILE_COUNT - 2 THEN "exp_read"
                             ELSE "dist"
                   /\ loc' = IF mki + 1 < TILE_COUNT \/ mkround = TILE_COUNT - 2
                             THEN loc ELSE 0
                   /\ UNCHANGED <<exitcode, diag, iofail, nfail>>
              ELSE /\ rdxfiles' = [rdxfiles EXCEPT ![mki] = NULL]
                   /\ Die("open", path)
                   /\ UNCHANGED <<fsys, fpos, mki, loc>>
    /\ UNCHANGED <<round, mkround, oldrdxfiles, infile, inpos, outfile,
                   cp, p, mi, leftover, expanded, mainVars, coalVars, pdbVars>>

\* while (getpuzzle(&cp, infile) != EOF), and the head of expandpuzzle.
ExpandRead ==
    /\ epc = "exp_read"
    /\ \E o \in fread(infile, inpos) :
          LET r == getpuzzle(o.kind)
          IN  /\ IF r = "exit"
                 THEN /\ Die("read", "getpuzzle")
                      /\ UNCHANGED <<cp, p, mi, inpos>>
                 ELSE /\ iofail' = IF o.kind = "err" THEN "read" ELSE iofail
                      /\ nfail' = IF o.kind = "err" THEN nfail + 1 ELSE nfail
                      /\ UNCHANGED <<exitcode, diag>>
                      /\ IF r = "ok"
                         THEN /\ cp' = o.cp
                              /\ p' = unpack_puzzle(o.cp)
                              /\ mi' = 0
                              /\ inpos' = inpos + 1
                              /\ epc' = "exp_move"
                         ELSE /\ epc' = "round"
                              /\ UNCHANGED <<cp, p, mi, inpos>>
    /\ UNCHANGED <<round, loc, mki, mkround, rdxfiles, oldrdxfiles, fsys, fpos,
                   infile, outfile, leftover, expanded,
                   mainVars, coalVars, pdbVars>>

\* One iteration of expandpuzzle's loop over the moves of the blank.
ExpandMove ==
    /\ epc = "exp_move"
    /\ LET zloc == zero_location(unpack_puzzle(cp))
       IN  IF mi >= move_count(zloc)
           THEN /\ epc' = "exp_read"
                /\ UNCHANGED <<mi, p, fsys, fpos, expanded,
                               exitcode, diag, iofail, nfail>>
           ELSE IF masked(move_mask(cp), mi)
           THEN /\ mi' = mi + 1
                /\ UNCHANGED <<epc, p, fsys, fpos, expanded,
                               exitcode, diag, iofail, nfail>>
           ELSE LET e == expandmove(p, zloc, mi)
                IN  /\ p' = e.p
                    /\ expanded' = Append(expanded,
                          [parent |-> cp, k |-> mi, ncp |-> e.ncp,
                           bucket |-> e.bucket])
                    /\ \E o \in putpuzzle_slot : BadStream(o)
                    /\ UNCHANGED <<mi, fsys, fpos>>
    /\ UNCHANGED <<round, loc, mki, mkround, rdxfiles, oldrdxfiles,
                   infile, inpos, outfile, cp, leftover,
                   mainVars, coalVars, pdbVars>>

\* round >= 1: when it holds, oldrdxfiles = rdxfiles and makerdxfiles begins;
\* when it does not, the last loop begins with loc = 0 (line 230).
RoundTest ==
    /\ epc = "round"
    /\ IF round >= 1
       THEN /\ oldrdxfiles' = rdxfiles
            /\ mkround' = round - 1
            /\ mki' = 0
            /\ epc' = "mk"
            /\ UNCHANGED loc
       ELSE /\ loc' = 0
            /\ epc' = "coal"
            /\ UNCHANGED <<oldrdxfiles, mkround, mki>>
    /\ UNCHANGED <<round, rdxfiles, fsys, fpos, infile, inpos, outfile, cp, p,
                   mi, exitcode, diag, iofail, nfail, leftover, expanded,
                   mainVars, coalVars, pdbVars>>

\* One iteration of distribute(rdxfiles, oldrdxfiles[loc], round - 1): the
\* end of the bucket, a failed read, or a record, which goes to
\* putpuzzle(outfiles + p.tiles[t], &cp).
Distribute ==
    /\ epc = "dist"
    /\ LET f == oldrdxfiles[loc]
       IN  \E o \in fread(fsys[f], fpos[f]) :
              LET r == getpuzzle(o.kind)
              IN  IF r = "exit"
                  THEN /\ Die("read", "getpuzzle")
                       /\ UNCHANGED fpos
                  ELSE IF r = "EOF"
                  THEN /\ epc' = "dist_close"
                       /\ iofail' = IF o.kind = "err" THEN "read" ELSE iofail
                       /\ nfail' = IF o.kind = "err" THEN nfail + 1 ELSE nfail
                       /\ UNCHANGED <<fpos, exitcode, diag>>
                  ELSE /\ fpos' = [fpos EXCEPT ![f] = @ + 1]
                       /\ \E b \in putpuzzle_slot : BadStream(b)
    /\ UNCHANGED <<round, loc, mki, mkround, rdxfiles, oldrdxfiles, fsys,
                   infile, inpos, outfile, cp, p, mi, leftover, expanded,
                   mainVars, coalVars, pdbVars>>

\* fclose(oldrdxfiles[loc]); the result is not looked at.
DistClose ==
    /\ epc = "dist_close"
    /\ \E ok \in Outcomes :
          /\ iofail' = IF ok THEN iofail ELSE "close"
          /\ nfail' = IF ok THEN nfail ELSE nfail + 1
    /\ fpos' = StClose(fpos, oldrdxfiles[loc])
    /\ epc' = "dist_rm"
    /\ UNCHANGED <<round, loc, mki, mkround, rdxfiles, oldrdxfiles, fsys,
                   infile, inpos, outfile, cp, p, mi, exitcode, diag,
                   leftover, expanded, mainVars, coalVars, pdbVars>>

\* removerdxfile(dir, round, loc); the result of remove() is not looked at.
\* The program does not use the file again: fsys keeps the files still in use,
\* and leftover counts the files that stay on the disk as remove() has failed.
\* Then loc++, and round-- after the last bucket.
DistRemove ==
    /\ epc = "dist_rm"
    /\ \E ok \in Outcomes :
          /\ iofail' = IF ok THEN iofail ELSE "unlink"
          /\ nfail' = IF ok THEN nfail ELSE nfail + 1
          /\ leftover' = IF ok THEN leftover ELSE leftover + 1
    /\ fsys' = FsRemove(fsys, rdxpath(round, loc))
    /\ loc' = loc + 1
    /\ IF loc + 1 < TILE_COUNT
       THEN epc' = "dist" /\ round' = round
       ELSE epc' = "round" /\ round' = round - 1
    /\ UNCHANGED <<mki, mkround, rdxfiles, oldrdxfiles, fpos,
                   infile, inpos, outfile, cp, p, mi, exitcode, diag,
                   expanded, mainVars, coalVars, pdbVars>>

\* The number of records coalesce(out, in) has written when it has read the
\* first r records of in: all that the r records coalesce to but the one it
\* still holds in a.
coalesce_written(out, in, r) ==
    IF r = 0 THEN 0
    ELSE Len(coalesce(out, SubSeq(in, 1, r))) - Len(out) - 1

\* The ways a call coalesce(out, in) ends in exit(): the read after r records
\* fails, or the write that the r-th record causes, or the last write, after
\* the end of the file has been read.  read is the number of records read
\* and written the number of records written by then.
coalesce_failures(out, in) ==
    { [kind |-> "read", read |-> r, written |-> coalesce_written(out, in, r)] :
         r \in 0 .. Len(in) }
    \cup
    { [kind |-> "write", read |-> r,
       written |-> coalesce_written(out, in, r - 1)] :
         r \in { q \in 2 .. Len(in) :
                   coalesce_written(out, in, q) > coalesce_written(out, in, q - 1) } }
    \cup
    (IF in = <<>> THEN {}
     ELSE { [kind |-> "write", read |-> Len(in),
             written |-> coalesce_written(out, in, Len(in))] })

\* coalesce(outfile, rdxfiles[loc]): it runs to the end of the bucket, or a
\* read or a write fails after some of its records have been read and some
\* of the coalesced records written.
CoalesceBucket ==
    /\ epc = "coal"
    /\ LET f    == rdxfiles[loc]
           rest == SubSeq(fsys[f], fpos[f] + 1, Len(fsys[f]))
           full == coalesce(outfile, rest)
       IN  \E ok \in Outcomes :
              IF ok
              THEN /\ outfile' = full
                   /\ fpos' = [fpos EXCEPT ![f] = Len(fsys[f])]
                   /\ epc' = "coal_close"
                   /\ UNCHANGED <<exitcode, diag, iofail, nfail>>
              ELSE \E x \in coalesce_failures(outfile, rest) :
                      /\ outfile' = SubSeq(full, 1, Len(outfile) + x.written)
                      /\ fpos' = [fpos EXCEPT ![f] = @ + x.read]
                      /\ Die(x.kind, IF x.kind = "read" THEN "getpuzzle"
                                                      ELSE "putpuzzle")
    /\ UNCHANGED <<round, loc, mki, mkround, rdxfiles, oldrdxfiles, fsys,
                   infile, inpos, cp, p, mi, leftover, expanded,
                   mainVars, coalVars, pdbVars>>

\* fclose(rdxfiles[loc]); the result is not looked at.
CoalClose ==
    /\ epc = "coal_close"
    /\ \E ok \in Outcomes :
          /\ iofail' = IF ok THEN iofail ELSE "close"
          /\ nfail' = IF ok THEN nfail ELSE nfail + 1
    /\ fpos' = StClose(fpos, rdxfiles[loc])
    /\ epc' = "coal_rm"
    /\ UNCHANGED <<round, loc, mki, mkround, rdxfiles, oldrdxfiles, fsys,
                   infile, inpos, outfile, cp, p, mi, exitcode, diag,
                   leftover, expanded, mainVars, coalVars, pdbVars>>

\* removerdxfile(dir, round, loc), round being 0 after the passes; then loc++.
CoalRemove ==
    /\ epc = "coal_rm"
    /\ \E ok \in Outcomes :
          /\ iofail' = IF ok THEN iofail ELSE "unlink"
          /\ nfail' = IF ok THEN nfail ELSE nfail + 1
          /\ leftover' = IF ok THEN leftover ELSE leftover + 1
    /\ fsys' = FsRemove(fsys, rdxpath(round, loc))
    /\ loc' = loc + 1
    /\ epc' = IF loc + 1 < TILE_COUNT THEN "coal" ELSE "done"
    /\ UNCHANGED <<round, mki, mkround, rdxfiles, oldrdxfiles, fpos,
                   infile, inpos, outfile, cp, p, mi, exitcode, diag,
                   expanded, mainVars, coalVars, pdbVars>>

ExpNext ==
    \/ MakeRdxFile \/ ExpandRead \/ ExpandMove \/ RoundTest
    \/ Distribute \/ DistClose \/ DistRemove
    \/ CoalesceBucket \/ CoalClose \/ CoalRemove

SpecExp == ExpInit /\ [][ExpNext]_vars

(***************************************************************************)
(* What the round has produced.                                            *)
(***************************************************************************)
\* The children the expansion has handed to putpuzzle, in that order.
Children == [k \in 1 .. Len(expanded) |-> expanded[k].ncp]

\* The contents of the buckets rdxfiles[l], ..., rdxfiles[24], one after another.
RECURSIVE ConcatBuckets(_)
ConcatBuckets(l) ==
    IF l >= TILE_COUNT THEN <<>>
    ELSE fsys[rdxfiles[l]] \o ConcatBuckets(l + 1)

BagOf(s) ==
    [x \in {s[k] : k \in 1 .. Len(s)} |->
        Cardinality({k \in 1 .. Len(s) : s[k] = x})]

\* All distribution passes have run and coalescing has not begun.
PassesDone == epc = "coal" /\ loc = 0

\* The records the bucket files hold.
InBuckets == UNION {{fsys[f][k] : k \in 1 .. Len(fsys[f])} : f \in DOMAIN fsys}

\* The process has ended or is inside a call that does not return.
Stopped == epc \in {"done"} \cup {o.end : o \in putpuzzle_slot}

(***************************************************************************)
(* C4 as stated: the sorter neither loses nor duplicates a record: a       *)
(* record the expansion has emitted is in a bucket file until the final    *)
(* buckets are coalesced, and when the distribution passes have run, the   *)
(* final buckets read in order loc = 0..24 hold a permutation of the       *)
(* records the expansion emitted.                                          *)
(***************************************************************************)
SorterKeepsRecords ==
    /\ epc \notin {"coal", "coal_close", "coal_rm", "done"} =>
          \A k \in 1 .. Len(Children) : Children[k] \in InBuckets
    /\ PassesDone => BagOf(ConcatBuckets(0)) = BagOf(Children)

(***************************************************************************)
(* C5 as stated: a round in which no stdio call fails ends with the return *)
(* of expround, and then the output stream holds one record for every      *)
(* configuration the expansion produced, and no two records of one         *)
(* configuration.                                                          *)
(***************************************************************************)
OneRecordPerConfiguration ==
    /\ (Stopped /\ nfail = 0) => epc = "done"
    /\ epc = "done" =>
          /\ \A j, k \in 1 .. Len(outfile) :
                same_config(outfile[j], outfile[k]) => j = k
          /\ \A k \in 1 .. Len(Children) :
                \E j \in 1 .. Len(outfile) : same_config(outfile[j], Children[k])
          /\ \A j \in 1 .. Len(outfile) :
                \E k \in 1 .. Len(Children) : same_config(outfile[j], Children[k])

\* The n-th child emitted comes from its parent by an unmasked legal move,
\* moving back restores the parent, and its mask is the reverse move's bit.
ChildReversed(n) ==
    LET parent == unpack_puzzle(expanded[n].parent)
        child  == unpack_puzzle(expanded[n].ncp)
        z      == zero_location(parent)
        zc     == zero_location(child)
    IN  /\ expanded[n].k < move_count(z)
        /\ ~BitSet(move_mask(expanded[n].parent), expanded[n].k)
        /\ zc = get_moves(z)[expanded[n].k + 1]
        /\ child = move(parent, zc)
        /\ move(child, z) = parent
        /\ \E j \in 1 .. move_count(zc) :
              /\ get_moves(zc)[j] = z
              /\ move_mask(expanded[n].ncp) = Shl1(j - 1)

\* The puzzles the reverse move is tried on: the blank at every location.
MoveParents ==
    {solved_puzzle} \cup
    {swap_tiles(solved_puzzle, 0, t) : t \in 1 .. TILE_COUNT - 1}

\* move and pack_puzzle_masked on the k-th move of the blank of pz: the move
\* gives another puzzle, moving the blank back to where it was gives pz
\* again, and the child packed with the old location of the blank has the
\* bit of the move back and no other.
MoveAndBack(pz, k) ==
    LET z     == zero_location(pz)
        child == move(pz, get_moves(z)[k + 1])
        ncp   == pack_puzzle_masked(child, z)
        zc    == zero_location(child)
    IN  /\ zc = get_moves(z)[k + 1]
        /\ child # pz
        /\ move(child, z) = pz
        /\ unpack_puzzle(ncp) = child
        /\ \E j \in 1 .. move_count(zc) :
              /\ get_moves(zc)[j] = z
              /\ move_mask(ncp) = Shl1(j - 1)

(***************************************************************************)
(* C8: for every puzzle and every legal move of its blank, moving the      *)
(* blank back to its previous location gives the puzzle again, and the     *)
(* child packed for the move has the mask bit of that reverse move set     *)
(* (and no other); in expandpuzzle the working puzzle p is the unpacked    *)
(* parent whenever the loop is about to try a move, and the child the loop *)
(* has handed to putpuzzle comes from its parent by the move tried, goes   *)
(* back to it by the reverse move and carries the bit of that move.        *)
(***************************************************************************)
ReverseMoveRestores ==
    /\ \A pz \in MoveParents \cup
                  (IF cp = NoRec THEN {} ELSE {unpack_puzzle(cp)}) :
          \A k \in 0 .. move_count(zero_location(pz)) - 1 : MoveAndBack(pz, k)
    /\ epc = "exp_move" => p = unpack_puzzle(cp)
    /\ expanded # <<>> =>
          /\ ChildReversed(Len(expanded))
          /\ move(p, zero_location(unpack_puzzle(cp))) = unpack_puzzle(cp)

\* A child of a puzzle other than the solved one has been handed to
\* putpuzzle: p is that child, and the move back gives the parent.
ChildEmittedAndReversed ==
    /\ expanded # <<>>
    /\ cp # pack_puzzle(solved_puzzle)
    /\ p = unpack_puzzle(expanded[Len(expanded)].ncp)
    /\ p # unpack_puzzle(cp)
    /\ move(p, zero_location(unpack_puzzle(cp))) = unpack_puzzle(cp)

(***************************************************************************)
(* C10 as stated: no failure of an open, read, write, close or unlink on a *)
(* bucket file is ignored: after any of them the program has exited with a *)
(* nonzero status and a diagnostic.                                        *)
(***************************************************************************)
EveryFailureFatal ==
    iofail # "none" =>
        epc = "exit" /\ exitcode # 0 /\ diag # ""

(***************************************************************************)
(* C10, amended: a failed open, read or write terminates the program with  *)
(* status EXIT_FAILURE and a diagnostic, and the program exits for no      *)
(* other reason (the fwrite of putpuzzle(outfiles + k, &cp) that returns 0 *)
(* counts as a failed write); a failed close or unlink is ignored and the  *)
(* round goes on.                                                          *)
(***************************************************************************)
OpenReadWriteFailureFatal ==
    /\ iofail \in {"open", "read", "write"} <=> epc = "exit"
    /\ epc = "exit" => exitcode = EXIT_FAILURE /\ diag # ""
    /\ epc # "exit" => exitcode = 0
    /\ epc \notin {"exit", "sigabrt"} => diag = ""

\* fopen of a round-22 bucket failed: the program has exited, naming the path.
ExitedOnOpenFailure ==
    /\ epc = "exit" /\ iofail = "open" /\ exitcode = EXIT_FAILURE
    /\ mkround = 22 /\ diag = rdxpath(22, mki)

\* The bucket streams that are open.
OpenBuckets == DOMAIN fpos

(***************************************************************************)
(* C12: at every moment of a round at most 2 * TILE_COUNT = 50 bucket      *)
(* streams are open: the 25 of the pass being read and the 25 of the pass  *)
(* being written, and only 25 outside the distribution passes.  expround   *)
(* opens no other stream; the layer streams are its two parameters.        *)
(***************************************************************************)
AtMostFiftyOpen ==
    /\ Cardinality(OpenBuckets) <= 2 * TILE_COUNT
    /\ epc \in {"exp_read", "exp_move", "round", "coal"} =>
          Cardinality(OpenBuckets) <= TILE_COUNT

\* The pass of round 21 is about to read its first bucket: the 25 buckets
\* of round 21 and the 25 new ones of round 20 are open, 50 in all.
FiftyOpen ==
    /\ epc = "dist" /\ round = 21 /\ loc = 0
    /\ Cardinality(OpenBuckets) = 2 * TILE_COUNT
    /\ \A l \in Locs : {rdxpath(21, l), rdxpath(20, l)} \subseteq OpenBuckets

(***************************************************************************)
(* The bytes of the table, and the call a step of SpecPdb completes.       *)
(***************************************************************************)
Byte(tb, e) == tb[e.maprank][e.off]

\* Worker w performs the byte access of its pending call in this step.
Completes(w) == wpc[w] = "call" /\ wpc'[w] = "idle"

(***************************************************************************)
(* C13 as stated: every byte is UNREACHED or a distance in 0..254, and no  *)
(* update or conditional update ever raises a byte that holds a distance.  *)
(***************************************************************************)
DistanceNeverIncreases ==
    /\ [](\A e \in Entries : Byte(tables, e) \in 0 .. UNREACHED)
    /\ [][tables' = pdb_clear \/
          \A e \in Entries :
              Byte(tables, e) # UNREACHED => Byte(tables', e) <= Byte(tables, e)]_vars

(***************************************************************************)
(* C13, amended: every byte is UNREACHED or a distance in 0..254; a        *)
(* conditional update that expects UNREACHED changes no byte that holds a  *)
(* distance; a byte that holds a distance is raised only by pdb_update on  *)
(* that byte, which stores unconditionally, or reset by pdb_clear.         *)
(***************************************************************************)
DistanceKeptByConditionalUpdate ==
    /\ [](\A e \in Entries : Byte(tables, e) \in 0 .. UNREACHED)
    /\ [][\A e \in Entries :
             Byte(tables, e) # UNREACHED =>
                /\ \A w \in Workers :
                      (Completes(w) /\ wargs[w].kind = "cas"
                                    /\ wargs[w].expected = UNREACHED)
                          => Byte(tables', e) = Byte(tables, e)
                /\ Byte(tables', e) > Byte(tables, e) =>
                      \/ tables' = pdb_clear
                      \/ \E w \in Workers :
                            /\ Completes(w) /\ wargs[w].kind = "upd"
                            /\ pdb_entry_pointer(wargs[w].idx) = e
                            /\ Byte(tables', e) = uchar(wargs[w].desired)]_vars

\* pdb_update stored 3 in byte 0; a conditional update that expected
\* UNREACHED then returned 0 and left the 3.
DistanceSurvivedConditionalUpdate ==
    LET e == pdb_entry_pointer([maprank |-> 0, pidx |-> 0, eqidx |-> 0])
    IN  /\ dirty[e] /\ Byte(tables, e) = 3
        /\ cascalls[e] = 1 /\ caswins[e] = 0
        /\ \E w \in Workers : wret[w] = 0

(***************************************************************************)
(* C14: the reports come in the order of the layers.  The report of layer  *)
(* 0 is made of the one packed solved puzzle, mask zero, when no layer has *)
(* been expanded; the report of layer i >= 1 is made of the slice that the *)
(* expansion and coalescing of layer i has filled and nothing has changed  *)
(* since; and the expansion of layer i begins only when the layers         *)
(* 0..i-1, and no other, are reported.                                     *)
(***************************************************************************)
ReportsInOrder ==
    [][/\ (mpc = "round" /\ mpc' = "sample") =>
             /\ Len(Reports) = i /\ Reports' = Reports
             /\ \A k \in 1 .. Len(Reports) : Reports[k].layer = k - 1
       /\ stdout' # stdout =>
             /\ Len(Reports') = Len(Reports) + 1
             /\ SubSeq(Reports', 1, Len(Reports)) = Reports
             /\ new_cps' = new_cps
             /\ Reports'[Len(Reports')] = LayerLine(Len(Reports), Len(new_cps))
             /\ IF Reports = <<>>
                THEN /\ mpc = "print0" /\ i = 0
                     /\ new_cps = <<pack_puzzle(solved_puzzle)>>
                     /\ new_cps[1].mask = 0
                ELSE /\ mpc = "print" /\ i = Len(Reports)
                     /\ old_cps = <<>>
       /\ mpc \in {"sample", "free", "print"} => new_cps' = new_cps]_vars

\* The expansion of layer 3 is about to begin: layers 0, 1, 2 are reported.
ThreeReportedBeforeRound ==
    /\ mpc = "round" /\ i = 3 /\ new_cps = <<>> /\ Len(old_cps) = 4
    /\ Reports = <<LayerLine(0, 1), LayerLine(1, 2), LayerLine(2, 4)>>

(***************************************************************************)
(* The children of one parent, and what a bucket should hold.              *)
(***************************************************************************)
\* The positions in expanded of the children emitted for the record c.
ChildrenOf(c) == {n \in 1 .. Len(expanded) : expanded[n].parent = c}

\* The move indices below m that the mask of c leaves free.
Unmasked(c, m) == {j \in 0 .. m - 1 : ~BitSet(move_mask(c), j)}

\* The children emitted for bucket b, in the order emitted.
WrittenTo(b) ==
    LET sel == SelectSeq(expanded, LAMBDA e : e.bucket = b)
    IN  [n \in 1 .. Len(sel) |-> sel[n].ncp]

(***************************************************************************)
(* C15 as stated: expandpuzzle emits for every parent it has been given    *)
(* exactly one child per move index below move_count(zloc) whose bit is    *)
(* clear in the parent's mask and none for the others (for the parent at   *)
(* hand in the loop: per such index below the loop's i); every child is    *)
(* appended to the bucket indexed by its own tiles[24], once, and to no    *)
(* other bucket.                                                           *)
(***************************************************************************)
ExpandEmitsUnmasked ==
    (epc \in {"exp_read", "exp_move"} \/ expanded # <<>>) =>
        /\ \A q \in 1 .. inpos :
              LET c    == infile[q]
                  n    == move_count(zero_location(unpack_puzzle(c)))
                  upto == IF q = inpos /\ epc = "exp_move" THEN mi ELSE n
              IN  /\ {expanded[x].k : x \in ChildrenOf(c)} = Unmasked(c, upto)
                  /\ Cardinality(ChildrenOf(c)) = Cardinality(Unmasked(c, upto))
        /\ \A x \in 1 .. Len(expanded) :
              /\ expanded[x].bucket =
                    unpack_puzzle(expanded[x].ncp).tiles[TILE_COUNT - 1]
              /\ \E q \in 1 .. inpos : expanded[x].parent = infile[q]
        /\ \A b \in Locs : fsys[rdxfiles[b]] = WrittenTo(b)

\* What expandpuzzle does: it makes one putpuzzle call, for the first move the
\* mask leaves free, with the child of that move and the slot of the child's
\* tiles[24], and the process ends in the call; no bucket gets a record.
ExpandEndsAtFirstChild ==
    /\ Len(expanded) <= 1
    /\ InBuckets = {}
    /\ expanded # <<>> =>
          /\ epc \in {o.end : o \in putpuzzle_slot}
          /\ expanded[1].parent = infile[inpos]
          /\ expandpuzzle(infile[inpos]) =
                <<[bucket |-> expanded[1].bucket, ncp |-> expanded[1].ncp]>>
          /\ expanded[1].bucket = unpack_puzzle(expanded[1].ncp).tiles[TILE_COUNT - 1]
          /\ \A j \in 0 .. expanded[1].k - 1 : masked(move_mask(infile[inpos]), j)

(***************************************************************************)
(* C16 as stated: a round in which no stdio call fails gets through its    *)
(* distribution passes, and after the last one the expanded records of one *)
(* configuration lie in one final bucket, next to one another: any two of  *)
(* them are at positions j <= k of the same bucket with nothing but        *)
(* records of that configuration between them.                             *)
(***************************************************************************)
SameConfigurationAdjacent ==
    /\ (Stopped /\ nfail = 0) => round = 0
    /\ PassesDone =>
          \A x, y \in 1 .. Len(expanded) :
              same_config(expanded[x].ncp, expanded[y].ncp) =>
                  \E b \in Locs :
                      LET file == fsys[rdxfiles[b]]
                      IN  \E j, k \in 1 .. Len(file) :
                             /\ {file[j], file[k]} = {expanded[x].ncp, expanded[y].ncp}
                             /\ \A m \in j .. k : same_config(file[m], file[j])

(***************************************************************************)
(* C17: when layer i >= 1 is about to be reported, the mask of each of its *)
(* records has bit j set exactly if move j of the blank leads to a         *)
(* configuration of layer i - 1 (and no bit beyond the moves of the        *)
(* blank), and the expansion of the layer gives no configuration of layer  *)
(* i - 1.                                                                  *)
(***************************************************************************)
MaskBlocksParents ==
    (mpc = "print" /\ i >= 1) =>
        /\ \A k \in 1 .. Len(new_cps) :
              LET pz == unpack_puzzle(new_cps[k])
                  z  == zero_location(pz)
              IN  /\ \A j \in 0 .. move_count(z) - 1 :
                        BitSet(move_mask(new_cps[k]), j)
                            <=> move(pz, get_moves(z)[j + 1]) \in BFSLayers[i]
                  /\ move_mask(new_cps[k]) < Shl1(move_count(z))
        /\ StreamConfigs(ExpandAll(new_cps, 1, Len(new_cps)))
               \cap BFSLayers[i] = {}

\* Layer 6 is about to be reported and one of its records blocks two moves,
\* each of which leads to a configuration of layer 5.
TwoParentsBlocked ==
    /\ mpc = "print" /\ i = 6
    /\ \E k \in 1 .. Len(new_cps) :
          LET pz == unpack_puzzle(new_cps[k])
              z  == zero_location(pz)
          IN  \E j1, j2 \in 0 .. move_count(z) - 1 :
                 /\ j1 < j2
                 /\ move_mask(new_cps[k]) = Shl1(j1) + Shl1(j2)
                 /\ move(pz, get_moves(z)[j1 + 1]) \in BFSLayers[6]
                 /\ move(pz, get_moves(z)[j2 + 1]) \in BFSLayers[6]

(***************************************************************************)
(* The life of a bucket file.                                              *)
(***************************************************************************)
\* The bucket files the program has made and not yet passed to remove().
InUse == DOMAIN fsys

\* The buckets of round r that the loop over loc has passed.
Drained(r, upto) == {rdxpath(r, l) : l \in 0 .. upto - 1}

\* The buckets that makerdxfiles has made so far in this layer.
Created ==
    {rdxpath(r, l) : r \in (mkround + 1) .. (TILE_COUNT - 2), l \in Locs}
        \cup {rdxpath(mkround, l) : l \in 0 .. mki - 1}

\* What holds whether or not a call fails: a drained bucket is closed and has
\* been passed to remove() under its own path before the next one is read,
\* and at the return that holds of every bucket made.
BucketsClosedAndRemoveCalled ==
    /\ epc \in {"dist", "coal"} =>
          /\ Drained(round, loc) \subseteq Created
          /\ Drained(round, loc) \cap (OpenBuckets \cup InUse) = {}
    /\ epc = "done" =>
          /\ Created = {rdxpath(r, l) : r \in 0 .. (TILE_COUNT - 2), l \in Locs}
          /\ OpenBuckets = {} /\ InUse = {}

\* C18: when a pass or the coalescing reads the bucket loc, the buckets before
\* it in the same round are closed and no longer on the disk, under the paths
\* makerdxfiles gave them; and when expround returns, every bucket made in the
\* layer is closed and no bucket file is left on the disk.
BucketsClosedAndUnlinked ==
    /\ BucketsClosedAndRemoveCalled
    /\ epc \in {"dist", "coal", "done"} => leftover = 0

(***************************************************************************)
(* The output stream when an I/O error ends the round.                     *)
(***************************************************************************)
\* An I/O error has ended the coalescing, past the first final bucket.
ExitedWhileCoalescing ==
    /\ epc = "exit" /\ exitcode = EXIT_FAILURE /\ iofail = "read"
    /\ round = 0 /\ loc > 0
    /\ outfile = <<>>

(***************************************************************************)
(* SpecCoalesceFail: coalesce() applied to a stream as in SpecCoalesce,    *)
(* and the calls of it in which a getpuzzle or a putpuzzle exits.  cstep   *)
(* is -1 when the call has ended in exit(); cout1 is then what the call    *)
(* has written to its output stream.                                       *)
(***************************************************************************)
CoalesceExit ==
    /\ cstep = 0 /\ MayFail
    /\ \E x \in coalesce_failures(<<>>, cin) :
          /\ cout1' = SubSeq(coalesce(<<>>, cin), 1, x.written)
          /\ Die(x.kind, IF x.kind = "read" THEN "getpuzzle" ELSE "putpuzzle")
    /\ cstep' = -1
    /\ UNCHANGED <<cin, cout2, round, loc, mki, mkround, rdxfiles, oldrdxfiles,
                   fsys, fpos, infile, inpos, outfile, cp, p, mi, leftover,
                   expanded, mainVars, pdbVars>>

CoalFailNext == CoalesceFirst \/ CoalesceAgain \/ CoalesceExit

SpecCoalesceFail == CoalInit /\ [][CoalFailNext]_vars

\* The call that failed last is a write to a bucket file: the writes of the
\* coalescing, when round is 0, go to the output stream.
BucketWriteFailed == iofail = "write" /\ round > 0

(***************************************************************************)
(* C19 as stated: when a failed open, read or write on a bucket file has   *)
(* ended the layer computation, in the expansion, in a distribution pass   *)
(* or in the coalescing, the output stream of the layer (outfile in        *)
(* expround, cout1 in a call of coalesce) holds no record as the program   *)
(* exits.                                                                  *)
(***************************************************************************)
NoPartialOutput ==
    (epc = "exit" /\ (iofail \in {"open", "read"} \/ BucketWriteFailed)) =>
        (outfile = <<>> /\ cout1 = <<>>)

(***************************************************************************)
(* The frame of the table accessors.                                       *)
(***************************************************************************)
\* The valid indices of a table with two map ranks: eqidx < n_eqclass.
ValidIndices ==
    {[maprank |-> m, pidx |-> q, eqidx |-> e] :
        m \in 0 .. 1, q \in 0 .. 1, e \in 0 .. 1}

\* A step leaves the entry of every index but those of the byte of idx alone.
OthersKept(idx) ==
    \A other \in Indices :
        pdb_entry_pointer(other) # pdb_entry_pointer(idx) =>
            pdb_lookup(tables', other) = pdb_lookup(tables, other)

\* pdb_update has stored 3 at index (0, 0, 0); a conditional update has then
\* set the entry of index (0, 0, 1) from UNREACHED to 7, and a second one that
\* expected UNREACHED there has returned 0; the other bytes are as they were.
UpdatedTwoBytes ==
    LET i0 == [maprank |-> 0, pidx |-> 0, eqidx |-> 0]
        i1 == [maprank |-> 0, pidx |-> 0, eqidx |-> 1]
    IN  /\ pdb_lookup(tables, i0) = 3 /\ dirty[pdb_entry_pointer(i0)]
        /\ pdb_lookup(tables, i1) = 7
        /\ cascalls[pdb_entry_pointer(i1)] = 2 /\ caswins[pdb_entry_pointer(i1)] = 1
        /\ \E w \in Workers : wpc[w] = "idle" /\ wret[w] = 0
        /\ \A idx \in Indices \ {i0, i1} : pdb_lookup(tables, idx) = UNREACHED

\* C20: two different valid indices address different bytes; a conditional
\* update whose expected value is not the byte's value returns 0 and leaves
\* the whole table as it is; one whose expected value is the byte's value
\* returns 1 and stores desired there, pdb_update stores dist there, and
\* either leaves every other byte of the table as it is.
UpdateTouchesOneByte ==
    /\ [](\A a, b \in ValidIndices :
             a # b => pdb_entry_pointer(a) # pdb_entry_pointer(b))
    /\ [][\A w \in Workers :
             Completes(w) =>
                LET a   == wargs[w]
                    old == pdb_lookup(tables, a.idx)
                IN  /\ OthersKept(a.idx)
                    /\ (a.kind = "cas" /\ old # uchar(a.expected)) =>
                          (wret'[w] = 0 /\ tables' = tables)
                    /\ (a.kind = "cas" /\ old = uchar(a.expected)) =>
                          /\ wret'[w] = 1
                          /\ pdb_lookup(tables', a.idx) = uchar(a.desired)
                    /\ a.kind = "upd" =>
                          pdb_lookup(tables', a.idx) = uchar(a.desired)]_vars

====
